---------------------------- MODULE Spec2Model ----------------------------
(***************************************************************************)
(* Model of the MQTT relay: the supervisor loop of start_relay, the        *)
(* per-relay worker run_mqtt_relay_connection with its nested publish      *)
(* task, and the ingress handler handle_publish, sharing the table         *)
(* `tasks` (relay id -> (task handle, channel sender)).                    *)
(***************************************************************************)
EXTENDS Integers, Sequences, FiniteSets, TLC

\* Program constants.
BACKOFF_MAX_RETRIES == 20
CHANNEL_CAPACITY == 32
REQUEST_CAPACITY == 15   \* AsyncClient::new(mqttoptions, 15): the client's request queue

\* Bounds of the model.
MaxSpare == 1       \* task slots beyond one per relay (ended workers not yet freed)
MaxPending == 1     \* Spec, SpecRouter: the environment keeps every channel at most this full
MaxBlocked == 1     \* handlers that may be suspended on a full channel at once
MaxTopics == 16     \* SpecSubscribe: a relay is configured with at most this many subscribe topics

None == "None"
UnknownId == "X"

\* The request bodies the environment sends (PublishRequest, without relay_id).
Bodies ==
  { [topic |-> "t", message |-> "m", qos |-> 1, retain |-> FALSE],
    [topic |-> "u", message |-> "n", qos |-> 0, retain |-> TRUE] }

OneBody == { [topic |-> "t", message |-> "m", qos |-> 1, retain |-> FALSE] }

PublishRequest(body, id) ==
  [topic |-> body.topic, message |-> body.message, relay_id |-> id,
   qos |-> body.qos, retain |-> body.retain]

Requests(bodies, ids) == { PublishRequest(b, id) : b \in bodies, id \in ids }

VARIABLES
  relay_list,   \* the registry: a sequence of relay ids (get_relay_list)
  subscribe,    \* relay id -> the number of topics in its config.mqtt.subscribe
  tasks,        \* the table: a set of entries [id, task]
  workers,      \* task slot -> the worker task spawned in it, its channel and publish task
  sup_pc,       \* the supervisor's position: "check", "insert", "reap", "sleep"
  sup_i,        \* index in relay_list of the relay the for loop is at
  sup_new,      \* the task spawned and not yet inserted (0: none)
  blocked,      \* handlers suspended in publish_tx.send, holding the read lock
  resp,         \* the last response of handle_publish: [status, relay_id]
  tick_dead,    \* relays whose worker had finished when the current tick started
  trace         \* history: the messages the router enqueued and the publish calls made

vars == <<relay_list, subscribe, tasks, workers, sup_pc, sup_i, sup_new, blocked, resp, tick_dead, trace>>

TaskIds == 1..(Len(relay_list) + MaxSpare)

Range(f) == { f[x] : x \in DOMAIN f }

----------------------------------------------------------------------------
\* The table (HashMap<String, (JoinHandle, Sender)>).

Keys(tbl) == { e.id : e \in tbl }

ContainsKey(tbl, k) == k \in Keys(tbl)

\* HashMap::get: the task of the entry with key k.
Get(tbl, k) == (CHOOSE e \in tbl : e.id = k).task

\* HashMap::insert: replaces the entry of the same key.
Insert(tbl, k, t) == { e \in tbl : e.id # k } \cup { [id |-> k, task |-> t] }

\* JoinHandle::is_finished: the worker returned or panicked ("gone": it had, and its
\* handle was dropped with its entry).
IsFinished(ws, t) == ws[t].pc \in {"done", "panicked", "gone"}

\* A faulty variant of Retain: the negation is lost and the running tasks are dropped.
RetainFinished(tbl, ws) == { e \in tbl : IsFinished(ws, e.task) }

\* HashMap::retain(|_, (task, _)| !task.is_finished()).
Retain(tbl, ws) == { e \in tbl : ~IsFinished(ws, e.task) }

----------------------------------------------------------------------------
\* Channels (mpsc::channel(32)).

\* The receiver lives in an Arc shared by the worker function and its publish tasks:
\* it is dropped, and the channel closed, when the worker has ended and no publish
\* task holds a clone.
RxAlive(ws, t) == ~IsFinished(ws, t) \/ ws[t].publish_task # "none"

\* The sender lives in the table entry (or in the supervisor between spawn and insert).
TxAlive(tbl, new, t) == t = new \/ \E e \in tbl : e.task = t

\* let (publish_tx, publish_rx) = mpsc::channel(32); spawn(run_mqtt_relay_connection).
\* pc: where the worker is in its loop ("start", "connect", "poll", "forward", "backoff",
\* "sleep", or ended: "done", "panicked", "gone"); connected: a poll of the current cycle has
\* succeeded; clean: no poll of this worker has succeeded since it was spawned;
\* publish_task: "none", or where the cycle's publish task is ("recv", "publish");
\* subscribed: the subscribe requests of the current cycle in the client's queue;
\* held: the message it has taken off the channel; chan: the channel's buffer.
NewWorker(r) ==
  [relay |-> r, pc |-> "start", backoff_retry_attempts |-> 0, connected |-> FALSE, clean |-> TRUE,
   subscribed |-> 0, publish_task |-> "none", held |-> None, chan |-> <<>>]

\* What is left of an ended worker whose entry was removed: its channel and its
\* publish task, until that ends too and the slot is free again.
Collect(ws, tbl, new) ==
  [ t \in { u \in DOMAIN ws :
              ~(IsFinished(ws, u) /\ ws[u].publish_task = "none" /\ ~TxAlive(tbl, new, u)) }
      |-> IF IsFinished(ws, t) /\ ~TxAlive(tbl, new, t)
            THEN [NewWorker(ws[t].relay) EXCEPT !.pc = "gone", !.publish_task = ws[t].publish_task,
                                                !.held = ws[t].held, !.chan = ws[t].chan]
            ELSE ws[t] ]

FreeSlots(ws) == TaskIds \ DOMAIN ws

Extend(ws, t, w) == [ u \in DOMAIN ws \cup {t} |-> IF u = t THEN w ELSE ws[u] ]

----------------------------------------------------------------------------
\* History of the publish path, kept only by the specifications that switch it on:
\* sent, the messages the router put on a channel, and calls, the publish calls that
\* returned, each with the relay and in the order they happened.

NoTrace == [on |-> FALSE, sent |-> << >>, calls |-> << >>]

Sent(r, m) ==
  IF trace.on THEN [trace EXCEPT !.sent = Append(@, [relay |-> r, message |-> m])] ELSE trace

Called(r, c) ==
  IF trace.on THEN [trace EXCEPT !.calls = Append(@, [relay |-> r, call |-> c])] ELSE trace

\* A faulty variant of ClientPublish: the QoS of the request is passed on.
ClientPublishRequestQos(m) ==
  [topic |-> m.topic, qos |-> IF m.qos = 0 THEN "AtMostOnce" ELSE "AtLeastOnce",
   retain |-> m.retain, payload |-> m.message]

\* client.publish(&message.topic, QoS::AtLeastOnce, message.retain, message.message.as_bytes()).
ClientPublish(m) ==
  [topic |-> m.topic, qos |-> "AtLeastOnce", retain |-> m.retain, payload |-> m.message]

----------------------------------------------------------------------------
\* The supervisor: the loop of start_relay.

Init ==
  /\ relay_list = <<"A">>
  /\ subscribe = [r \in {"A"} |-> 1]
  /\ tasks = {}
  /\ workers = << >>
  /\ sup_pc = "check"
  /\ sup_i = 1
  /\ sup_new = 0
  /\ blocked = {}
  /\ resp = [status |-> "none", relay_id |-> None]
  /\ tick_dead = {}
  /\ trace = NoTrace

\* The relays whose last worker has finished and has not been replaced.
DeadRelays(ws, tbl) == { e.id : e \in { x \in tbl : IsFinished(ws, x.task) } }

\* The for loop moves to the next relay, or past the last one to the retain.
SupAdvance ==
  IF sup_i >= Len(relay_list)
    THEN sup_pc' = "reap" /\ sup_i' = 1
    ELSE sup_pc' = "check" /\ sup_i' = sup_i + 1

\* A faulty variant of NeedsSpawn: the table is not consulted.
NeedsSpawnAlways(tbl, r) == TRUE

\* if !tasks.read().await.contains_key(&relay_id): true when the relay has no entry.
NeedsSpawn(tbl, r) == ~ContainsKey(tbl, r)

\* The relay has an entry: nothing is spawned.
SupSkip ==
  /\ sup_pc = "check"
  /\ ~NeedsSpawn(tasks, relay_list[sup_i])
  /\ SupAdvance
  /\ UNCHANGED <<relay_list, subscribe, tasks, workers, sup_new, blocked, resp, tick_dead, trace>>

\* The relay has no entry: a channel is created and a worker spawned on it.
SupSpawn ==
  /\ sup_pc = "check"
  /\ NeedsSpawn(tasks, relay_list[sup_i])
  /\ FreeSlots(workers) # {}
  /\ LET t == CHOOSE u \in FreeSlots(workers) : \A v \in FreeSlots(workers) : u <= v
     IN /\ workers' = Extend(workers, t, NewWorker(relay_list[sup_i]))
        /\ sup_new' = t
  /\ sup_pc' = "insert"
  /\ UNCHANGED <<relay_list, subscribe, tasks, sup_i, blocked, resp, tick_dead, trace>>

\* tasks.write().await.insert(relay_id, (task, publish_tx)): waits for the readers.
SupInsert ==
  /\ sup_pc = "insert"
  /\ blocked = {}
  /\ tasks' = Insert(tasks, relay_list[sup_i], sup_new)
  /\ sup_new' = 0
  /\ SupAdvance
  /\ UNCHANGED <<relay_list, subscribe, workers, blocked, resp, tick_dead, trace>>

\* tasks.write().await.retain(|_, (task, _)| !task.is_finished()).
SupReap ==
  /\ sup_pc = "reap"
  /\ blocked = {}
  /\ tasks' = Retain(tasks, workers)
  /\ workers' = Collect(workers, tasks', sup_new)
  /\ sup_pc' = "sleep"
  /\ UNCHANGED <<relay_list, subscribe, sup_i, sup_new, blocked, resp, tick_dead, trace>>

\* sleep(RESTART_DELAY_SECS) is over: the next tick starts.
SupTick ==
  /\ sup_pc = "sleep"
  /\ sup_pc' = "check"
  /\ sup_i' = 1
  /\ tick_dead' = DeadRelays(workers, tasks)
  /\ UNCHANGED <<relay_list, subscribe, tasks, workers, sup_new, blocked, resp, trace>>

start_relay == SupSkip \/ SupSpawn \/ SupInsert \/ SupReap \/ SupTick

----------------------------------------------------------------------------
\* The worker: run_mqtt_relay_connection.

Running(t) == t \in DOMAIN workers

Set(t, w) == [workers EXCEPT ![t] = w]

\* What the retry counter becomes when the first poll of a cycle succeeds.
ResetRetry(n) == 0

\* What the retry counter becomes after the backoff sleep.
NextRetry(n) == n + 1

\* A faulty variant of CapReached: the comparison is strict.
CapReachedAbove(n) == n > BACKOFF_MAX_RETRIES

\* if backoff_retry_attempts >= BACKOFF_MAX_RETRIES { return; }
CapReached(n) == n >= BACKOFF_MAX_RETRIES

\* The client's request queue takes a request only below its capacity; nothing polls
\* the event loop, which drains it, before subscribe_to_topics has returned.
QueueHasRoom(n) == n < REQUEST_CAPACITY

\* client.subscribe(topic, QoS::AtMostOnce).await returns Ok: the request is in the
\* queue of the cycle's new client.
WSubscribeTopic(t) ==
  /\ Running(t) /\ workers[t].pc = "start"
  /\ workers[t].subscribed < subscribe[workers[t].relay]
  /\ QueueHasRoom(workers[t].subscribed)
  /\ workers' = Set(t, [workers[t] EXCEPT !.subscribed = @ + 1])
  /\ UNCHANGED <<relay_list, subscribe, tasks, sup_pc, sup_i, sup_new, blocked, resp, tick_dead, trace>>

\* subscribe_to_topics returns after the last topic, the publish task is spawned.
WSubscribe(t) ==
  /\ Running(t) /\ workers[t].pc = "start"
  /\ workers[t].subscribed = subscribe[workers[t].relay]
  /\ workers' = Set(t, [workers[t] EXCEPT !.pc = "connect", !.connected = FALSE, !.subscribed = 0,
                                          !.publish_task = "recv", !.held = None])
  /\ UNCHANGED <<relay_list, subscribe, tasks, sup_pc, sup_i, sup_new, blocked, resp, tick_dead, trace>>

\* client.subscribe(..).await.unwrap() panics: the task ends before a publish task
\* of this cycle exists.
WSubscribePanic(t) ==
  /\ Running(t) /\ workers[t].pc = "start"
  /\ workers[t].subscribed < subscribe[workers[t].relay]
  /\ workers' = Set(t, [workers[t] EXCEPT !.pc = "panicked", !.subscribed = 0])
  /\ UNCHANGED <<relay_list, subscribe, tasks, sup_pc, sup_i, sup_new, blocked, resp, tick_dead, trace>>

\* handle_mqtt_connection: the first poll of the cycle returns Ok.
WConnectOk(t) ==
  /\ Running(t) /\ workers[t].pc = "connect"
  /\ workers' = Set(t, [workers[t] EXCEPT !.pc = "poll", !.connected = TRUE,
                                          !.backoff_retry_attempts = ResetRetry(@), !.clean = FALSE])
  /\ UNCHANGED <<relay_list, subscribe, tasks, sup_pc, sup_i, sup_new, blocked, resp, tick_dead, trace>>

\* handle_mqtt_connection: the first poll of the cycle returns Err.
WConnectErr(t) ==
  /\ Running(t) /\ workers[t].pc = "connect"
  /\ workers' = Set(t, [workers[t] EXCEPT !.pc = "poll"])
  /\ UNCHANGED <<relay_list, subscribe, tasks, sup_pc, sup_i, sup_new, blocked, resp, tick_dead, trace>>

\* process_incoming_messages: a poll returns Ok while the cycle has no connection
\* yet (the first poll failed): the broker connection is established now.
WPollConnects(t) ==
  /\ Running(t) /\ workers[t].pc = "poll" /\ ~workers[t].connected
  /\ workers' = Set(t, [workers[t] EXCEPT !.connected = TRUE, !.clean = FALSE])
  /\ UNCHANGED <<relay_list, subscribe, tasks, sup_pc, sup_i, sup_new, blocked, resp, tick_dead, trace>>

\* process_incoming_messages: a poll returns a Publish packet of the broker and the
\* loop body calls forward_buffer_messages(..).await.
WPollPublish(t) ==
  /\ Running(t) /\ workers[t].pc = "poll" /\ workers[t].connected
  /\ workers' = Set(t, [workers[t] EXCEPT !.pc = "forward"])
  /\ UNCHANGED <<relay_list, subscribe, tasks, sup_pc, sup_i, sup_new, blocked, resp, tick_dead, trace>>

\* forward_buffer_messages returns (an error is logged): the loop polls again.
WForwarded(t) ==
  /\ Running(t) /\ workers[t].pc = "forward"
  /\ workers' = Set(t, [workers[t] EXCEPT !.pc = "poll"])
  /\ UNCHANGED <<relay_list, subscribe, tasks, sup_pc, sup_i, sup_new, blocked, resp, tick_dead, trace>>

\* process_incoming_messages: a poll returns Err and the loop ends.
WPollErr(t) ==
  /\ Running(t) /\ workers[t].pc = "poll"
  /\ workers' = Set(t, [workers[t] EXCEPT !.pc = "backoff"])
  /\ UNCHANGED <<relay_list, subscribe, tasks, sup_pc, sup_i, sup_new, blocked, resp, tick_dead, trace>>

\* A faulty variant of WExhausted: the worker takes its own entry out of the table as it returns.
WExhaustedRemoves(t) ==
  /\ Running(t) /\ workers[t].pc = "backoff"
  /\ CapReached(workers[t].backoff_retry_attempts)
  /\ workers' = Set(t, [workers[t] EXCEPT !.pc = "done"])
  /\ tasks' = { e \in tasks : e.task # t }
  /\ UNCHANGED <<relay_list, subscribe, sup_pc, sup_i, sup_new, blocked, resp, tick_dead, trace>>

\* The cap is reached: the worker returns. Its publish task is not aborted.
WExhausted(t) ==
  /\ Running(t) /\ workers[t].pc = "backoff"
  /\ CapReached(workers[t].backoff_retry_attempts)
  /\ workers' = Set(t, [workers[t] EXCEPT !.pc = "done"])
  /\ UNCHANGED <<relay_list, subscribe, tasks, sup_pc, sup_i, sup_new, blocked, resp, tick_dead, trace>>

\* A faulty variant of WBackoff: the channel is emptied when the publish task is aborted.
WBackoffDrains(t) ==
  /\ Running(t) /\ workers[t].pc = "backoff"
  /\ ~CapReached(workers[t].backoff_retry_attempts)
  /\ workers' = Set(t, [workers[t] EXCEPT !.pc = "sleep", !.connected = FALSE,
                                          !.publish_task = "none", !.held = None, !.chan = << >>])
  /\ UNCHANGED <<relay_list, subscribe, tasks, sup_pc, sup_i, sup_new, blocked, resp, tick_dead, trace>>

\* Below the cap: calculate_backoff, publish_task.abort(), sleep.
WBackoff(t) ==
  /\ Running(t) /\ workers[t].pc = "backoff"
  /\ ~CapReached(workers[t].backoff_retry_attempts)
  /\ workers' = Set(t, [workers[t] EXCEPT !.pc = "sleep", !.connected = FALSE,
                                          !.publish_task = "none", !.held = None])
  /\ UNCHANGED <<relay_list, subscribe, tasks, sup_pc, sup_i, sup_new, blocked, resp, tick_dead, trace>>

\* The sleep is over: backoff_retry_attempts += 1 and the loop starts again.
WWake(t) ==
  /\ Running(t) /\ workers[t].pc = "sleep"
  /\ workers' = Set(t, [workers[t] EXCEPT !.pc = "start", !.backoff_retry_attempts = NextRetry(@)])
  /\ UNCHANGED <<relay_list, subscribe, tasks, sup_pc, sup_i, sup_new, blocked, resp, tick_dead, trace>>

----------------------------------------------------------------------------
\* The publish task: publish_messages.

\* A faulty variant of PubRecv: the message is read and left on the channel.
PubRecvPeek(t) ==
  /\ Running(t) /\ workers[t].publish_task = "recv"
  /\ workers[t].chan # << >>
  /\ workers' = Set(t, [workers[t] EXCEPT !.publish_task = "publish", !.held = Head(workers[t].chan)])
  /\ UNCHANGED <<relay_list, subscribe, tasks, sup_pc, sup_i, sup_new, blocked, resp, tick_dead, trace>>

\* publish_rx.lock().await.recv().await returns Some(message).
PubRecv(t) ==
  /\ Running(t) /\ workers[t].publish_task = "recv"
  /\ workers[t].chan # << >>
  /\ workers' = Set(t, [workers[t] EXCEPT !.publish_task = "publish", !.held = Head(workers[t].chan),
                                          !.chan = Tail(@)])
  /\ UNCHANGED <<relay_list, subscribe, tasks, sup_pc, sup_i, sup_new, blocked, resp, tick_dead, trace>>

\* client.publish(topic, AtLeastOnce, retain, payload).await returns; an error is logged.
PubPublish(t) ==
  /\ Running(t) /\ workers[t].publish_task = "publish"
  /\ workers' = Set(t, [workers[t] EXCEPT !.publish_task = "recv", !.held = None])
  /\ trace' = Called(workers[t].relay, ClientPublish(workers[t].held))
  /\ UNCHANGED <<relay_list, subscribe, tasks, sup_pc, sup_i, sup_new, blocked, resp, tick_dead>>

\* recv() returns None: the channel is empty and every sender is dropped.
PubEnd(t) ==
  /\ Running(t) /\ workers[t].publish_task = "recv"
  /\ workers[t].chan = << >>
  /\ ~TxAlive(tasks, sup_new, t)
  /\ workers' = Collect(Set(t, [workers[t] EXCEPT !.publish_task = "none"]), tasks, sup_new)
  /\ UNCHANGED <<relay_list, subscribe, tasks, sup_pc, sup_i, sup_new, blocked, resp, tick_dead, trace>>

----------------------------------------------------------------------------
\* The ingress router: handle_publish.

\* A faulty variant of Resolve: an id that has no entry falls back to the default choice.
ResolveFallback(tbl, q) ==
  IF q.relay_id = None \/ q.relay_id \notin { e.id : e \in tbl }
    THEN (IF tbl = {} THEN {None} ELSE { e.id : e \in tbl })
    ELSE {q.relay_id}

\* The key the request resolves to: its relay_id, or with none the first key of the
\* table in the map's iteration order (any of them); None when the table is empty.
Resolve(tbl, q) ==
  IF q.relay_id = None
    THEN (IF Keys(tbl) = {} THEN {None} ELSE Keys(tbl))
    ELSE {q.relay_id}

\* A faulty variant of PublishMessage: the retain flag is not copied.
PublishMessageNoRetain(q) ==
  [topic |-> q.topic, message |-> q.message, qos |-> q.qos, retain |-> FALSE]

\* PublishMessage { topic, message, qos, retain } built from the request.
PublishMessage(q) ==
  [topic |-> q.topic, message |-> q.message, qos |-> q.qos, retain |-> q.retain]

Response(s, q) == [status |-> s, relay_id |-> q.relay_id]

\* A faulty variant of HasRoom: the bound is off by one.
HasRoomOffByOne(ch) == Len(ch) <= CHANNEL_CAPACITY

\* The channel's bound: a send finds room below it.
HasRoom(ch) == Len(ch) < CHANNEL_CAPACITY

Waiting(t) == \E b \in blocked : b.task = t

Enqueue(t, m) == Set(t, [workers[t] EXCEPT !.chan = Append(@, m)])

\* The handler from the read lock to its response, or to its suspension in send.
handle_publish(q) ==
  \E k \in Resolve(tasks, q) :
    IF ~ContainsKey(tasks, k)
      THEN /\ resp' = Response("NOT_FOUND", q)
           /\ UNCHANGED <<workers, blocked, trace>>
      ELSE LET t == Get(tasks, k) IN
        IF ~RxAlive(workers, t)
          THEN /\ resp' = Response("INTERNAL_SERVER_ERROR", q)
               /\ UNCHANGED <<workers, blocked, trace>>
          ELSE IF HasRoom(workers[t].chan) /\ ~Waiting(t)
            THEN /\ workers' = Enqueue(t, PublishMessage(q))
                 /\ trace' = Sent(k, PublishMessage(q))
                 /\ resp' = Response("OK", q)
                 /\ UNCHANGED blocked
            ELSE /\ Cardinality(blocked) < MaxBlocked
                 /\ blocked' = blocked \cup {[task |-> t, req |-> q]}
                 /\ UNCHANGED <<workers, resp, trace>>

Publish(q) ==
  /\ handle_publish(q)
  /\ UNCHANGED <<relay_list, subscribe, tasks, sup_pc, sup_i, sup_new, tick_dead>>

\* A suspended send ends: the channel was closed, or a slot was freed.
SendResume(b) ==
  /\ b \in blocked
  /\ IF ~RxAlive(workers, b.task)
       THEN /\ resp' = Response("INTERNAL_SERVER_ERROR", b.req)
            /\ UNCHANGED <<workers, trace>>
       ELSE /\ HasRoom(workers[b.task].chan)
            /\ workers' = Enqueue(b.task, PublishMessage(b.req))
            /\ trace' = Sent(workers[b.task].relay, PublishMessage(b.req))
            /\ resp' = Response("OK", b.req)
  /\ blocked' = blocked \ {b}
  /\ UNCHANGED <<relay_list, subscribe, tasks, sup_pc, sup_i, sup_new, tick_dead>>

\* The environment sends a request only while every channel holds fewer than n messages.
Quiet(n) == \A t \in DOMAIN workers : Len(workers[t].chan) < n

----------------------------------------------------------------------------
\* The worker's steps while the broker accepts the connection and keeps it.
WorkerUp ==
  \/ \E t \in TaskIds : WSubscribeTopic(t)
  \/ \E t \in TaskIds : WSubscribe(t)
  \/ \E t \in TaskIds : WSubscribePanic(t)
  \/ \E t \in TaskIds : WConnectOk(t)
  \/ \E t \in TaskIds : WPollPublish(t)
  \/ \E t \in TaskIds : WForwarded(t)

\* The worker's steps around a failed poll: a refused or lost connection, the backoff,
\* the exit at the cap and the end of the publish task that exit leaves running.
WorkerDown ==
  \/ \E t \in TaskIds : WConnectErr(t)
  \/ \E t \in TaskIds : WPollConnects(t)
  \/ \E t \in TaskIds : WPollErr(t)
  \/ \E t \in TaskIds : WExhausted(t)
  \/ \E t \in TaskIds : WBackoff(t)
  \/ \E t \in TaskIds : WWake(t)
  \/ \E t \in TaskIds : PubEnd(t)

publish_messages ==
  \/ \E t \in TaskIds : PubRecv(t)
  \/ \E t \in TaskIds : PubPublish(t)

\* One relay, its worker through every reconnect cycle, requests that name it.
Next ==
  \/ start_relay
  \/ WorkerUp
  \/ WorkerDown
  \/ publish_messages
  \/ \E q \in Requests(OneBody, {"A"}) : Quiet(MaxPending) /\ Publish(q)

Spec == Init /\ [][Next]_vars

\* Two relays whose brokers keep their connections, every kind of request.
InitRouter ==
  /\ relay_list = <<"A", "B">>
  /\ subscribe = [r \in {"A", "B"} |-> 1]
  /\ tasks = {}
  /\ workers = << >>
  /\ sup_pc = "check"
  /\ sup_i = 1
  /\ sup_new = 0
  /\ blocked = {}
  /\ resp = [status |-> "none", relay_id |-> None]
  /\ tick_dead = {}
  /\ trace = NoTrace

NextRouter ==
  \/ start_relay
  \/ WorkerUp
  \/ publish_messages
  \/ \E q \in Requests(Bodies, {None, "A", "B", UnknownId}) : Quiet(MaxPending) /\ Publish(q)

SpecRouter == InitRouter /\ [][NextRouter]_vars

\* One relay whose broker keeps its connection, requests up to the channel's bound
\* and beyond it.
NextBridge ==
  \/ start_relay
  \/ WorkerUp
  \/ publish_messages
  \/ \E q \in Requests(OneBody, {"A"}) : Publish(q)
  \/ \E b \in blocked : SendResume(b)

SpecBridge == Init /\ [][NextBridge]_vars

\* One relay and its worker through every reconnect cycle; the environment sends
\* each of the distinguishable request bodies at most once, and the history is kept.
Fresh(q) == \A i \in 1..Len(trace.sent) : trace.sent[i].message.message # q.message

InitPublish ==
  /\ relay_list = <<"A">>
  /\ subscribe = [r \in {"A"} |-> 1]
  /\ tasks = {}
  /\ workers = << >>
  /\ sup_pc = "check"
  /\ sup_i = 1
  /\ sup_new = 0
  /\ blocked = {}
  /\ resp = [status |-> "none", relay_id |-> None]
  /\ tick_dead = {}
  /\ trace = [NoTrace EXCEPT !.on = TRUE]

NextPublish ==
  \/ start_relay
  \/ WorkerUp
  \/ WorkerDown
  \/ publish_messages
  \/ \E q \in Requests(Bodies, {"A"}) : Fresh(q) /\ Publish(q)

SpecPublish == InitPublish /\ [][NextPublish]_vars

\* One relay with any number of subscribe topics up to MaxTopics, its worker through
\* every reconnect cycle.
InitSubscribe ==
  /\ relay_list = <<"A">>
  /\ subscribe \in [{"A"} -> 0..MaxTopics]
  /\ tasks = {}
  /\ workers = << >>
  /\ sup_pc = "check"
  /\ sup_i = 1
  /\ sup_new = 0
  /\ blocked = {}
  /\ resp = [status |-> "none", relay_id |-> None]
  /\ tick_dead = {}
  /\ trace = NoTrace

NextSubscribe ==
  \/ start_relay
  \/ WorkerUp
  \/ WorkerDown

SpecSubscribe == InitSubscribe /\ [][NextSubscribe]_vars

----------------------------------------------------------------------------
\* Properties.

InTable(tbl, t) == \E e \in tbl : e.task = t

AllRequests == Requests(Bodies, {None, "A", "B", UnknownId})

\* The handler of request q ran to its response in this step (it was not suspended).
Answered(q) == Publish(q) /\ blocked' = blocked

\* C1: in every reachable state each relay id has at most one worker task that has
\* not finished, and the table holds at most one entry per relay id.
C1_OneWorkerPerRelay ==
  /\ \A t, u \in DOMAIN workers :
       (workers[t].relay = workers[u].relay
          /\ ~IsFinished(workers, t) /\ ~IsFinished(workers, u)) => t = u
  /\ \A e, f \in tasks : e.id = f.id => e = f

\* A relay was respawned: what is left of its ended worker and the running
\* replacement, which has its entry, exist together.
C1_Witness ==
  \E t, u \in DOMAIN workers :
    /\ workers[t].relay = workers[u].relay
    /\ IsFinished(workers, t) /\ ~IsFinished(workers, u)
    /\ InTable(tasks, u)

\* C2: an entry leaves the table only in the supervisor's retain step, and only
\* when its worker task has finished; an entry of a running task is never removed
\* or replaced.
C2_RemovedOnlyWhenFinished ==
  [][ \A e \in tasks :
        e \notin tasks' =>
          /\ sup_pc = "reap" /\ sup_pc' = "sleep"
          /\ IsFinished(workers, e.task) ]_vars

\* The retain step has removed the entry of a worker that ended at the cap.
C2_Witness ==
  \E t \in DOMAIN workers : workers[t].pc = "gone" /\ ~InTable(tasks, t)

\* C3 (as claimed): a worker that had terminated when a supervisor tick started is
\* replaced by the end of that tick: when the tick's retain is done and the
\* supervisor sleeps, the relay has the entry of a freshly spawned worker.
C3_ReplacedWithinOneTick ==
  sup_pc = "sleep" => \A r \in tick_dead : ContainsKey(tasks, r)

\* The consecutive failed connection attempts of a worker none of whose polls has
\* succeeded since it was spawned: its completed cycles.
FailedAttempts(w) == IF w.pc \in {"backoff", "sleep", "done"} THEN w.backoff_retry_attempts + 1 ELSE w.backoff_retry_attempts

\* C4 (as claimed): a worker terminates exactly when its consecutive failed
\* connection attempts since the last successful handshake (or since it was
\* spawned) reach 20: it starts no attempt after 20 failures, and it does not
\* terminate with fewer (in particular not at the end of a cycle that connected).
C4_TerminatesExactlyAtTwenty ==
  \A t \in DOMAIN workers :
    LET w == workers[t] IN
      /\ (w.pc = "done" => ~w.connected)
      /\ (w.clean /\ w.pc = "done" => FailedAttempts(w) = BACKOFF_MAX_RETRIES)
      /\ (w.clean /\ w.pc \in {"start", "connect"} => FailedAttempts(w) < BACKOFF_MAX_RETRIES)

C6_ResetOnAnyHandshake ==
  \A t \in DOMAIN workers :
    (workers[t].pc = "backoff" /\ workers[t].connected) => workers[t].backoff_retry_attempts = 0

\* C7: a request with no relay_id and an empty table, or naming an id that has no
\* entry, is answered NotFound and enqueues nothing; with no relay_id and a
\* non-empty table the answer is not NotFound.
C7_NotFound ==
  [][ \A q \in AllRequests :
        Answered(q) =>
          /\ ( \/ (q.relay_id = None /\ tasks = {})
               \/ (q.relay_id # None /\ ~ContainsKey(tasks, q.relay_id)) )
             => (resp'.status = "NOT_FOUND" /\ workers' = workers)
          /\ (q.relay_id = None /\ tasks # {}) => resp'.status # "NOT_FOUND" ]_vars

\* A request naming an unknown id was answered NotFound while both relays have
\* entries and no channel holds a message.
C7_Witness ==
  /\ resp = [status |-> "NOT_FOUND", relay_id |-> UnknownId]
  /\ Keys(tasks) = {"A", "B"}
  /\ \A t \in DOMAIN workers : workers[t].chan = << >>

\* C8: a request that names a relay id of the table and is answered with success
\* has appended exactly one message, with the request's topic, payload, qos and
\* retain flag, to that relay's channel; the other workers and the table are unchanged.
C8_EnqueuesExactlyOne ==
  [][ \A q \in AllRequests :
        (Answered(q) /\ ContainsKey(tasks, q.relay_id) /\ resp'.status = "OK") =>
          LET t == Get(tasks, q.relay_id) IN
            /\ workers'[t].chan =
                 Append(workers[t].chan,
                        [topic |-> q.topic, message |-> q.message,
                         qos |-> q.qos, retain |-> q.retain])
            /\ workers' = [workers EXCEPT ![t].chan = workers'[t].chan]
            /\ tasks' = tasks ]_vars

\* The request {u, n, qos 0, retain} naming B was answered with success: B's channel
\* holds that message and A's worker runs with an empty channel.
C8_Witness ==
  /\ resp = [status |-> "OK", relay_id |-> "B"]
  /\ \E t, u \in DOMAIN workers :
       /\ workers[t].relay = "B" /\ InTable(tasks, t)
       /\ workers[t].chan = << [topic |-> "u", message |-> "n", qos |-> 0, retain |-> TRUE] >>
       /\ workers[u].relay = "A" /\ InTable(tasks, u)
       /\ workers[u].chan = << >>

\* C9 (as claimed): a request resolved to an entry whose worker has terminated is
\* answered with an internal error, never with success.
C9_TerminatedNeverSuccess ==
  [][ \A q \in AllRequests :
        (/\ Answered(q)
         /\ ContainsKey(tasks, q.relay_id)
         /\ IsFinished(workers, Get(tasks, q.relay_id)))
        => resp'.status = "INTERNAL_SERVER_ERROR" ]_vars

\* The suspended sends of the handlers.
Suspended(q, t) == [task |-> t, req |-> q]

\* C10: a channel never holds more than 32 messages; a send that finds the channel
\* full (or other sends waiting) and the receiver alive suspends with its message
\* and enqueues nothing, and a suspended send ends only by appending its message
\* below the bound or, on a closed channel, by an internal error.
C10_ChannelBounded ==
  /\ [](\A t \in DOMAIN workers : Len(workers[t].chan) <= CHANNEL_CAPACITY)
  /\ [][ \A q \in AllRequests :
           (/\ Publish(q)
            /\ ContainsKey(tasks, q.relay_id)
            /\ RxAlive(workers, Get(tasks, q.relay_id))
            /\ Len(workers[Get(tasks, q.relay_id)].chan) >= CHANNEL_CAPACITY)
           => /\ blocked' = blocked \cup {Suspended(q, Get(tasks, q.relay_id))}
              /\ workers' = workers ]_vars
  /\ [][ \A b \in blocked :
           b \notin blocked' =>
             \/ /\ ~RxAlive(workers, b.task)
                /\ resp' = [status |-> "INTERNAL_SERVER_ERROR", relay_id |-> b.req.relay_id]
                /\ workers' = workers
             \/ /\ Len(workers[b.task].chan) < CHANNEL_CAPACITY
                /\ resp' = [status |-> "OK", relay_id |-> b.req.relay_id]
                /\ workers' = [workers EXCEPT ![b.task].chan =
                                 Append(workers[b.task].chan,
                                        [topic |-> b.req.topic, message |-> b.req.message,
                                         qos |-> b.req.qos, retain |-> b.req.retain])] ]_vars

\* The channel holds 32 messages and a handler is suspended in its send.
C10_Witness ==
  \E b \in blocked :
    /\ b.task \in DOMAIN workers
    /\ Len(workers[b.task].chan) = CHANNEL_CAPACITY


\* The handler of request q ran and put its message on the channel of relay k.
RoutedTo(q, k) ==
  /\ Publish(q)
  /\ ContainsKey(tasks, k)
  /\ workers'[Get(tasks, k)].chan # workers[Get(tasks, k)].chan

\* C11 (as claimed): the relay a request without relay_id is routed to is a function
\* of the table's contents: in no reachable state can the same request be routed to
\* two different relays.
C11_DefaultIsDeterministic ==
  \A q \in AllRequests :
    q.relay_id = None =>
      \A k1, k2 \in Keys(tasks) :
        (ENABLED RoutedTo(q, k1) /\ ENABLED RoutedTo(q, k2)) => k1 = k2

\* C12 (as claimed): a worker that is in its backoff sleep, or has ended, has no
\* publish task: every way out of the poll loop has cancelled it.
C12_PublishTaskCancelled ==
  \A t \in DOMAIN workers :
    (workers[t].pc = "sleep" \/ IsFinished(workers, t)) =>
      workers[t].publish_task = "none"


\* The place in the history of enqueued messages of the message a call was made with.
SentIndex(c) ==
  { i \in 1..Len(trace.sent) :
      trace.sent[i].relay = c.relay /\ ClientPublish(trace.sent[i].message) = c.call }

\* C13: for each relay the publish calls are made in the order in which their
\* messages were put on the relay's channel: the sequence of calls is an
\* order-preserving subsequence of the sequence of enqueued messages, whatever
\* reconnects and cancellations happen in between.
C13_PublishedInEnqueueOrder ==
  \A i, j \in 1..Len(trace.calls) :
    (i < j /\ trace.calls[i].relay = trace.calls[j].relay) =>
      \E a \in SentIndex(trace.calls[i]) : \E b \in SentIndex(trace.calls[j]) : a < b

\* The messages the traced requests are turned into.
TracedMessages == { PublishMessage(q) : q \in Requests(Bodies, {"A"}) }

\* Message m is on a channel of relay r.
InChannel(r, m) ==
  \E t \in DOMAIN workers : workers[t].relay = r /\ m \in Range(workers[t].chan)

\* The publish task of worker t has taken message m and its publish call has not returned.
Holds(t, m) == workers[t].publish_task = "publish" /\ workers[t].held = m

Taken(r, m) ==
  \E t \in DOMAIN workers : workers[t].relay = r /\ Holds(t, m)

\* The publish calls made for message m of relay r.
CallsOf(r, m) ==
  { i \in 1..Len(trace.calls) :
      trace.calls[i] = [relay |-> r, call |-> ClientPublish(m)] }

\* C14: a message the router enqueued is passed to a publish call at most once: no
\* two publish tasks hold the same message, a message that was published is neither
\* on the channel nor held, and a message that has left the channel and is neither
\* held nor published (its publish task was cancelled) is never published later.
C14_PublishedAtMostOnce ==
  /\ [] \A r \in Range(relay_list) : \A m \in TracedMessages :
          /\ Cardinality(CallsOf(r, m)) <= 1
          /\ CallsOf(r, m) # {} => (~InChannel(r, m) /\ ~Taken(r, m))
          /\ Cardinality({ t \in DOMAIN workers : Holds(t, m) }) <= 1
          /\ ~(InChannel(r, m) /\ Taken(r, m))
  /\ [][ \A r \in Range(relay_list) : \A m \in TracedMessages :
           (~InChannel(r, m) /\ ~Taken(r, m) /\ CallsOf(r, m) = {}) =>
             (\/ (CallsOf(r, m))' = {} /\ ~(Taken(r, m))'
              \/ (InChannel(r, m))') ]_vars

\* A publish task was cancelled while it held a message: the message was enqueued
\* and is neither on the channel, nor held, nor published, and a message enqueued
\* after it has been published.
C14_Witness ==
  \E r \in Range(relay_list) : \E m, n \in TracedMessages :
    /\ \E i \in 1..Len(trace.sent) : trace.sent[i] = [relay |-> r, message |-> m]
    /\ ~InChannel(r, m) /\ ~Taken(r, m) /\ CallsOf(r, m) = {}
    /\ CallsOf(r, n) # {}
    /\ \E i, j \in 1..Len(trace.sent) :
         /\ i < j
         /\ trace.sent[i] = [relay |-> r, message |-> m]
         /\ trace.sent[j] = [relay |-> r, message |-> n]


\* Request q was answered with success: its message is in the history of relay r.
Routed(r, q) ==
  \E i \in 1..Len(trace.sent) : trace.sent[i] = [relay |-> r, message |-> PublishMessage(q)]

\* The publish call the claim expects for request q.
ExpectedCall(r, q) ==
  [relay |-> r,
   call |-> [topic |-> q.topic, qos |-> "AtLeastOnce", retain |-> q.retain, payload |-> q.message]]

\* C15 (as claimed): every request answered with success ends in exactly one publish
\* call with its topic and payload, QoS AtLeastOnce and its retain flag. In the form
\* a finite run refutes: the message of such a request is on the channel, or held by
\* a publish task, or that one call has been made; a message that is none of these
\* has been dropped, and by C14 no call is ever made for it.
C15_EveryRoutedPublishedOnce ==
  \A r \in Range(relay_list) : \A q \in Requests(Bodies, {r}) :
    Routed(r, q) =>
      \/ InChannel(r, PublishMessage(q))
      \/ Taken(r, PublishMessage(q))
      \/ Cardinality({ i \in 1..Len(trace.calls) : trace.calls[i] = ExpectedCall(r, q) }) = 1

\* C15 (amended): a request answered with success produces at most one publish call,
\* and every publish call that is made is the one expected for a request that was
\* answered with success: its topic and payload, QoS AtLeastOnce whatever its qos
\* field, and its retain flag.
C15_AtMostOneCallAsRequested ==
  /\ \A i \in 1..Len(trace.calls) :
       \E q \in Requests(Bodies, {trace.calls[i].relay}) :
         Routed(trace.calls[i].relay, q) /\ trace.calls[i] = ExpectedCall(trace.calls[i].relay, q)
  /\ \A r \in Range(relay_list) : \A q \in Requests(Bodies, {r}) :
       Cardinality({ i \in 1..Len(trace.calls) : trace.calls[i] = ExpectedCall(r, q) }) <= 1

\* The request with qos 0 and retain was answered with success and its publish call
\* was made, while the message of the other request was dropped by a cancellation.
C15_Witness ==
  \E q, p \in Requests(Bodies, {"A"}) :
    /\ q.qos = 0 /\ q.retain /\ Routed("A", q)
    /\ \E i \in 1..Len(trace.calls) : trace.calls[i] = ExpectedCall("A", q)
    /\ p # q /\ Routed("A", p)
    /\ ~InChannel("A", PublishMessage(p)) /\ ~Taken("A", PublishMessage(p))
    /\ CallsOf("A", PublishMessage(p)) = {}


\* C16 (as claimed): forwarding a message of the broker does not block the poll
\* loop: while the forwarding call of a worker has not returned, the worker can
\* still poll the next event.
C16_ForwardingDoesNotBlockPoll ==
  \A t \in DOMAIN workers :
    workers[t].pc = "forward" => ENABLED (WPollPublish(t) \/ WPollErr(t))


\* C17 (as claimed): whatever the number of subscribe topics, a worker that is
\* subscribing goes on to poll the event loop. In the form a finite run refutes: in
\* every state in which a worker is subscribing, its pending subscribe call can
\* return or its loop over the topics is over.
C17_SubscribingProceeds ==
  \A t \in DOMAIN workers :
    workers[t].pc = "start" => ENABLED (WSubscribeTopic(t) \/ WSubscribe(t))


\* C18 (as claimed): the router holds no lock on the table while it is suspended in
\* a channel send: whenever a handler is suspended, the supervisor, when it is at an
\* insert or at the retain, can take the write lock and go on with its tick.
C18_SendHoldsNoLock ==
  blocked # {} =>
    /\ sup_pc = "insert" => ENABLED SupInsert
    /\ sup_pc = "reap" => ENABLED SupReap


\* This step leaves the messages on the channel of worker t where they are, in
\* order; it may add one at the end.
Kept(t) ==
  /\ Len(workers'[t].chan) >= Len(workers[t].chan)
  /\ SubSeq(workers'[t].chan, 1, Len(workers[t].chan)) = workers[t].chan

\* The worker of slot t is the same worker before and after this step.
SameWorker(t) == t \in DOMAIN workers /\ t \in DOMAIN workers' /\ ~IsFinished(workers, t)

C20_RetryStateInRange ==
  /\ [] \A t \in DOMAIN workers :
          workers[t].backoff_retry_attempts \in 0..BACKOFF_MAX_RETRIES
  /\ [][ \A t \in TaskIds :
           (t \in DOMAIN workers /\ t \in DOMAIN workers') =>
             /\ workers'[t].backoff_retry_attempts # workers[t].backoff_retry_attempts =>
                  \/ workers'[t].backoff_retry_attempts = 0
                  \/ /\ workers[t].pc = "sleep" /\ workers'[t].pc = "start"
                     /\ workers'[t].backoff_retry_attempts = workers[t].backoff_retry_attempts + 1
             /\ (workers[t].pc = "backoff" /\ workers'[t].pc = "sleep") =>
                  workers[t].backoff_retry_attempts \in 0..(BACKOFF_MAX_RETRIES - 1) ]_vars

\* A worker has slept with a counter of 19 and starts the cycle in which the counter
\* is 20.
C20_Witness ==
  \E t \in DOMAIN workers :
    workers[t].pc = "start" /\ workers[t].backoff_retry_attempts = BACKOFF_MAX_RETRIES

====
